---- MODULE Spec2Model ----
(***************************************************************************)
(* Model of scripts/compress_glb.py: a straight-line Python script run     *)
(* inside Blender.  It reads two paths from sys.argv, clears the scene,    *)
(* imports a GLB, exports it with Draco compression and prints a size      *)
(* summary.  Every statement of the script is one action; an uncaught      *)
(* exception ends the run.  The Blender operators and the file system are  *)
(* the host: a host call either returns or raises, and what it returns is  *)
(* chosen by the host.                                                     *)
(***************************************************************************)
EXTENDS Integers, Sequences, FiniteSets

\* ------------------------------------------------------------------ bounds
MaxArgs == 4
MaxSize == 2
MaxObjects == 1

\* ----------------------------------------------------------- the universe
Tokens == {"--", "a", "b"}
Paths == Tokens
ObjectNames == {"Body", "Eyes"}
DefaultScene == {"Cube", "Light", "Camera"}
DefaultSelection == {"Cube"}

SeqsUpTo(S, n) == UNION {[1..k -> S] : k \in 0..n}
ArgLists == SeqsUpTo(Tokens, MaxArgs)

NoFile == [exists |-> FALSE, size |-> 0, content |-> "none"]
GlbFile(s, c) == [exists |-> TRUE, size |-> s, content |-> c]
InitialFiles == {NoFile} \cup {GlbFile(s, "original") : s \in 0..MaxSize}
ImportableSets == {S \in SUBSET ObjectNames : Cardinality(S) <= MaxObjects}

None == "None"
Unset == [n |-> 0, d |-> 0]
NoExc == [type |-> "none", line |-> "none"]

\* ------------------------------------------------------- script structure
Program == <<"L6", "L7", "L9", "L12", "L13", "L16", "L17", "L21", "L25",
             "L28", "L29", "L44", "L47", "L48", "L49", "L50", "L51">>

LineIndex(l) == CHOOSE i \in 1..Len(Program) : Program[i] = l

\* the script with the export placed before the import
AfterReordered(l) ==
    LET P == <<"L6", "L7", "L9", "L12", "L13", "L16", "L29", "L21", "L25",
               "L28", "L17", "L44", "L47", "L48", "L49", "L50", "L51">>
        i == CHOOSE j \in 1..Len(P) : P[j] = l
    IN  IF i = Len(P) THEN "done" ELSE P[i + 1]

After(l) == IF LineIndex(l) = Len(Program) THEN "done"
            ELSE Program[LineIndex(l) + 1]

\* ------------------------------------------------------- Python helpers
\* position of the last occurrence instead of the first
PyIndexLast(s, x) == (CHOOSE i \in 1..Len(s) :
                         s[i] = x /\ \A j \in (i + 1)..Len(s) : s[j] # x) - 1

\* list.index(x): 0-based position of the first occurrence
PyIndex(s, x) == (CHOOSE i \in 1..Len(s) :
                     s[i] = x /\ \A j \in 1..(i - 1) : s[j] # x) - 1

\* list[k] for k >= 0 is defined iff k < len(list)
PyInRange(s, k) == k >= 0 /\ k < Len(s)
PyGet(s, k) == s[k + 1]

\* the argument at offset off after the first "--"
ArgAfterDashes(args, off) == PyGet(args, PyIndex(args, "--") + off)

Abs(x) == IF x < 0 THEN -x ELSE x

RECURSIVE GCD(_, _)
GCD(a, b) == IF b = 0 THEN a ELSE GCD(b, a % b)

Lowest(n, d) == LET g == GCD(Abs(n), d)
                IN  [n |-> n \div g, d |-> d \div g]

\* exact quotient n/d (d > 0) in lowest terms; stands for the Python float
\* (the operands are evaluated once, then reduced)
Frac(n, d) == CHOOSE q \in {Lowest(x[1], x[2]) : x \in {<<n, d>>}} : TRUE

FDiv(a, b) == Frac(a.n * b.d, a.d * b.n)
OneMinus(q) == Frac(q.d - q.n, q.d)
Times(q, k) == Frac(q.n * k, q.d)

MB == 1024 * 1024

\* os.path.getsize(p) / (1024 * 1024)
SizeInMB(bytes) == Frac(bytes, MB)

\* the quotient taken the wrong way round
RatioInverted(out, in) == Times(OneMinus(FDiv(in, out)), 100)

\* (1 - output_size/input_size) * 100
Ratio(out, in) == Times(OneMinus(FDiv(out, in)), 100)

Pow10(k) == IF k = 1 THEN 10 ELSE 100

\* num/den (den > 0) rounded to an integer, ties to even
RoundHalfEven(num, den) ==
    LET lo == num \div den
        rem == num - lo * den
    IN  IF 2 * rem < den THEN lo
        ELSE IF 2 * rem > den THEN lo + 1
        ELSE IF lo % 2 = 0 THEN lo ELSE lo + 1

\* f"{q:.kf}": q rounded to k decimals, ties to even, as an integer number
\* of 10^-k units
Format(q, k) ==
    CHOOSE r \in {RoundHalfEven(x.n * Pow10(k), x.d) : x \in {q}} : TRUE

\* the settings with the maximum Draco compression level
ExportSettingsMaxLevel(path) ==
    [filepath |-> path,
     export_format |-> "GLB",
     export_draco_mesh_compression_enable |-> TRUE,
     export_draco_mesh_compression_level |-> 10,
     export_draco_position_quantization |-> 14,
     export_draco_normal_quantization |-> 10,
     export_draco_texcoord_quantization |-> 12,
     export_texture_dir |-> "",
     export_image_format |-> "AUTO",
     export_animations |-> TRUE,
     export_morph |-> TRUE,
     export_skins |-> TRUE]

\* keyword arguments of the bpy.ops.export_scene.gltf call
ExportSettings(path) ==
    [filepath |-> path,
     export_format |-> "GLB",
     export_draco_mesh_compression_enable |-> TRUE,
     export_draco_mesh_compression_level |-> 6,
     export_draco_position_quantization |-> 14,
     export_draco_normal_quantization |-> 10,
     export_draco_texcoord_quantization |-> 12,
     export_texture_dir |-> "",
     export_image_format |-> "AUTO",
     export_animations |-> TRUE,
     export_morph |-> TRUE,
     export_skins |-> TRUE]

\* ---------------------------------------------------------------- state
VARIABLES argv, fs, fs0, pc, exc, input_file, output_file,
          input_size, output_size, scene, selected, imported,
          stdout, log

vars == <<argv, fs, fs0, pc, exc, input_file, output_file,
          input_size, output_size, scene, selected, imported,
          stdout, log>>

names == <<input_file, output_file, input_size, output_size>>
blender == <<scene, selected, imported>>
env == <<argv, fs, fs0>>

Init ==
    /\ argv \in ArgLists
    /\ fs \in [Paths -> InitialFiles]
    /\ fs0 = fs
    /\ pc = "L6"
    /\ exc = NoExc
    /\ input_file = None
    /\ output_file = None
    /\ input_size = Unset
    /\ output_size = Unset
    /\ scene = DefaultScene
    /\ selected = DefaultSelection
    /\ imported = {}
    /\ stdout = <<>>
    /\ log = <<>>

\* ------------------------------------------------------ statement effects
Event(l, op, arg, ok) == [line |-> l, op |-> op, arg |-> arg, ok |-> ok]

\* the statement at line l completed
Goto(l) == /\ pc' = After(l)
           /\ exc' = exc

\* a failing import is swallowed and the script carries on
RaiseButImportCaught(l, type) ==
    IF l = "L17"
    THEN /\ pc' = After(l)
         /\ exc' = exc
    ELSE /\ pc' = "aborted"
         /\ exc' = [type |-> type, line |-> l]

\* a failing import is tried again
RaiseButImportRetried(l, type) ==
    IF l = "L17"
    THEN /\ pc' = "L17"
         /\ exc' = exc
    ELSE /\ pc' = "aborted"
         /\ exc' = [type |-> type, line |-> l]

\* the statement at line l raised: nothing catches it, the run ends
Raise(l, type) == /\ pc' = "aborted"
                  /\ exc' = [type |-> type, line |-> l]

PyPrint(l, msg) ==
    /\ pc = l
    /\ stdout' = Append(stdout, msg)
    /\ log' = Append(log, Event(l, "print", msg, TRUE))
    /\ Goto(l)
    /\ UNCHANGED <<env, names, blender>>

\* ------------------------------------------------------------- actions
\* a missing argument replaced by a default path instead of IndexError
ArgLookupDefault(args, off) ==
    IF \A i \in 1..Len(args) : args[i] # "--"
    THEN [exc |-> "ValueError", value |-> None]
    ELSE IF ~PyInRange(args, PyIndex(args, "--") + off)
    THEN [exc |-> "none", value |-> "a"]
    ELSE [exc |-> "none", value |-> ArgAfterDashes(args, off)]

\* sys.argv[sys.argv.index("--") + off]: index raises ValueError when "--"
\* is not in the list, the subscript raises IndexError when out of range
ArgLookup(args, off) ==
    IF \A i \in 1..Len(args) : args[i] # "--"
    THEN [exc |-> "ValueError", value |-> None]
    ELSE IF ~PyInRange(args, PyIndex(args, "--") + off)
    THEN [exc |-> "IndexError", value |-> None]
    ELSE [exc |-> "none", value |-> ArgAfterDashes(args, off)]

\* line 6: input_file = sys.argv[sys.argv.index("--") + 1]
ReadInputArg ==
    /\ pc = "L6"
    /\ LET r == ArgLookup(argv, 1)
       IN  /\ log' = Append(log, Event("L6", "argv", 1, r.exc = "none"))
           /\ IF r.exc = "none"
              THEN /\ input_file' = r.value
                   /\ Goto("L6")
              ELSE /\ input_file' = input_file
                   /\ Raise("L6", r.exc)
    /\ UNCHANGED <<env, output_file, input_size, output_size, blender, stdout>>

\* line 7: output_file = sys.argv[sys.argv.index("--") + 2]
ReadOutputArg ==
    /\ pc = "L7"
    /\ LET r == ArgLookup(argv, 2)
       IN  /\ log' = Append(log, Event("L7", "argv", 2, r.exc = "none"))
           /\ IF r.exc = "none"
              THEN /\ output_file' = r.value
                   /\ Goto("L7")
              ELSE /\ output_file' = output_file
                   /\ Raise("L7", r.exc)
    /\ UNCHANGED <<env, input_file, input_size, output_size, blender, stdout>>

\* line 9
PrintCompressing == PyPrint("L9", <<"Compressing", input_file, output_file>>)

\* select_all with its default action TOGGLE: deselects everything when
\* anything is selected
SelectAllToggle ==
    /\ pc = "L12"
    /\ \/ /\ selected' = (IF selected = {} THEN scene ELSE {})
          /\ log' = Append(log, Event("L12", "object.select_all", "TOGGLE", TRUE))
          /\ Goto("L12")
       \/ /\ selected' = selected
          /\ log' = Append(log, Event("L12", "object.select_all", "TOGGLE", FALSE))
          /\ Raise("L12", "RuntimeError")
    /\ UNCHANGED <<env, names, scene, imported, stdout>>

\* line 12: bpy.ops.object.select_all(action='SELECT')
SelectAll ==
    /\ pc = "L12"
    /\ \/ /\ selected' = scene
          /\ log' = Append(log, Event("L12", "object.select_all", "SELECT", TRUE))
          /\ Goto("L12")
       \/ /\ selected' = selected
          /\ log' = Append(log, Event("L12", "object.select_all", "SELECT", FALSE))
          /\ Raise("L12", "RuntimeError")
    /\ UNCHANGED <<env, names, scene, imported, stdout>>

\* line 13: bpy.ops.object.delete()
DeleteSelected ==
    /\ pc = "L13"
    /\ \/ /\ scene' = scene \ selected
          /\ selected' = {}
          /\ log' = Append(log, Event("L13", "object.delete", None, TRUE))
          /\ Goto("L13")
       \/ /\ UNCHANGED <<scene, selected>>
          /\ log' = Append(log, Event("L13", "object.delete", None, FALSE))
          /\ Raise("L13", "RuntimeError")
    /\ UNCHANGED <<env, names, imported, stdout>>

\* line 16
PrintImporting == PyPrint("L16", <<"Importing GLB...">>)

\* line 17: bpy.ops.import_scene.gltf(filepath=input_file)
\* A missing file always raises; for an existing file the importer decides.
\* On success the file's objects are added to the scene and selected.
ImportGlb ==
    /\ pc = "L17"
    /\ \/ /\ fs[input_file].exists
          /\ \E objs \in ImportableSets :
                /\ scene' = scene \cup objs
                /\ selected' = objs
                /\ imported' = objs
          /\ log' = Append(log, Event("L17", "import_scene.gltf", input_file, TRUE))
          /\ Goto("L17")
       \/ /\ UNCHANGED <<scene, selected, imported>>
          /\ log' = Append(log, Event("L17", "import_scene.gltf", input_file, FALSE))
          /\ Raise("L17", "RuntimeError")
    /\ UNCHANGED <<env, names, stdout>>

\* lines 21, 25, 28
PrintSkipTextures == PyPrint("L21", <<"Skipping texture optimization">>)
PrintSkipDecimation == PyPrint("L25", <<"Skipping mesh decimation">>)
PrintExporting == PyPrint("L28", <<"Exporting compressed GLB...">>)

\* the export written over the input file
ExportGlbInPlace ==
    /\ pc = "L29"
    /\ LET kw == ExportSettings(input_file)
       IN  \/ /\ \E s \in 1..MaxSize :
                    fs' = [fs EXCEPT ![kw.filepath] = GlbFile(s, "draco")]
              /\ log' = Append(log, Event("L29", "export_scene.gltf", kw, TRUE))
              /\ Goto("L29")
           \/ /\ \/ fs' = fs
                 \/ \E s \in 0..MaxSize :
                       fs' = [fs EXCEPT ![kw.filepath] = GlbFile(s, "truncated")]
              /\ log' = Append(log, Event("L29", "export_scene.gltf", kw, FALSE))
              /\ Raise("L29", "RuntimeError")
    /\ UNCHANGED <<argv, fs0, names, blender, stdout>>

\* lines 29-42: bpy.ops.export_scene.gltf(filepath=output_file, ...)
\* On success the exporter has written a GLB of a size it chose at filepath.
\* On failure it has written nothing or left a truncated file at filepath.
ExportGlb ==
    /\ pc = "L29"
    /\ LET kw == ExportSettings(output_file)
       IN  \/ /\ \E s \in 1..MaxSize :
                    fs' = [fs EXCEPT ![kw.filepath] = GlbFile(s, "draco")]
              /\ log' = Append(log, Event("L29", "export_scene.gltf", kw, TRUE))
              /\ Goto("L29")
           \/ /\ \/ fs' = fs
                 \/ \E s \in 0..MaxSize :
                       fs' = [fs EXCEPT ![kw.filepath] = GlbFile(s, "truncated")]
              /\ log' = Append(log, Event("L29", "export_scene.gltf", kw, FALSE))
              /\ Raise("L29", "RuntimeError")
    /\ UNCHANGED <<argv, fs0, names, blender, stdout>>

\* line 44
PrintComplete == PyPrint("L44", <<"Compression complete!">>)

\* os.path.getsize(path): OSError when the file does not exist
GetSize(l, path) ==
    /\ log' = Append(log, Event(l, "os.path.getsize", path, fs[path].exists))
    /\ IF fs[path].exists THEN Goto(l) ELSE Raise(l, "OSError")

\* line 47: input_size = os.path.getsize(input_file) / (1024 * 1024)
MeasureInput ==
    /\ pc = "L47"
    /\ GetSize("L47", input_file)
    /\ input_size' = IF fs[input_file].exists
                     THEN SizeInMB(fs[input_file].size) ELSE input_size
    /\ UNCHANGED <<env, input_file, output_file, output_size, blender, stdout>>

\* line 48: output_size = os.path.getsize(output_file) / (1024 * 1024)
MeasureOutput ==
    /\ pc = "L48"
    /\ GetSize("L48", output_file)
    /\ output_size' = IF fs[output_file].exists
                      THEN SizeInMB(fs[output_file].size) ELSE output_size
    /\ UNCHANGED <<env, input_file, output_file, input_size, blender, stdout>>

\* lines 49, 50
PrintInputSize == PyPrint("L49", <<"Input size", Format(input_size, 2)>>)
PrintOutputSize == PyPrint("L50", <<"Output size", Format(output_size, 2)>>)

\* line 51: print(f"Compression ratio: {(1 - output_size/input_size) * 100:.1f}%")
\* The f-string is evaluated before print is called: a zero input_size
\* raises ZeroDivisionError and nothing is printed.
PrintRatio ==
    /\ pc = "L51"
    /\ IF input_size.n = 0
       THEN /\ stdout' = stdout
            /\ log' = Append(log, Event("L51", "print", None, FALSE))
            /\ Raise("L51", "ZeroDivisionError")
       ELSE /\ stdout' = Append(stdout,
                   <<"Compression ratio", Format(Ratio(output_size, input_size), 1)>>)
            /\ log' = Append(log, Event("L51", "print", None, TRUE))
            /\ Goto("L51")
    /\ UNCHANGED <<env, names, blender>>

Next ==
    \/ ReadInputArg
    \/ ReadOutputArg
    \/ PrintCompressing
    \/ SelectAll
    \/ DeleteSelected
    \/ PrintImporting
    \/ ImportGlb
    \/ PrintSkipTextures
    \/ PrintSkipDecimation
    \/ PrintExporting
    \/ ExportGlb
    \/ PrintComplete
    \/ MeasureInput
    \/ MeasureOutput
    \/ PrintInputSize
    \/ PrintOutputSize
    \/ PrintRatio

Spec == Init /\ [][Next]_vars

\* the interpreter always executes the next statement, and every host call
\* returns or raises; runs over a file system without a file named "--"
FairInit == Init /\ ~fs["--"].exists

FairSpec == FairInit /\ [][Next]_vars /\ WF_vars(Next)

\* ================================================================ claims
Terminal == pc \in {"done", "aborted"}

Calls(op) == {i \in 1..Len(log) : log[i].op = op}
Returned(op) == \E i \in Calls(op) : log[i].ok
Failed(op) == \E i \in Calls(op) : ~log[i].ok
Printed(head) == \E i \in 1..Len(stdout) : stdout[i][1] = head

BlenderOps == {"object.select_all", "object.delete",
               "import_scene.gltf", "export_scene.gltf"}

\* position (1-based) of the first "--" of argv, 0 when there is none
FirstDashes == IF \E k \in 1..Len(argv) : argv[k] = "--"
               THEN CHOOSE k \in 1..Len(argv) :
                       argv[k] = "--" /\ \A j \in 1..(k - 1) : argv[j] # "--"
               ELSE 0

WellFormedArgs == FirstDashes > 0 /\ Len(argv) >= FirstDashes + 2

\* C1: a run that reaches the end of the script leaves an output file at
\* the output path whose size is at most the size of the input file.
C1_OutputNotLarger ==
    pc = "done" =>
        /\ fs[output_file].exists
        /\ fs[output_file].size <= fs[input_file].size

\* C2: the statements run in the one fixed order parse, clear, import,
\* export, report; a statement runs only after every earlier one returned,
\* so nothing is skipped or reordered.
ScriptOrder == <<"argv", "argv", "print", "object.select_all", "object.delete",
                 "print", "import_scene.gltf", "print", "print", "print",
                 "export_scene.gltf", "print", "os.path.getsize",
                 "os.path.getsize", "print", "print", "print">>

C2_LinearOrder ==
    /\ Len(log) <= Len(ScriptOrder)
    /\ \A i \in 1..Len(log) :
          /\ log[i].op = ScriptOrder[i]
          /\ i < Len(log) => log[i].ok
    /\ pc = "done" => Len(log) = Len(ScriptOrder) /\ log[Len(log)].ok
    /\ Len(stdout) = Cardinality({i \in Calls("print") : log[i].ok})

C2_Witness == pc = "done" /\ Returned("export_scene.gltf")

\* C3: every call of the exporter gets the same fixed settings (GLB, Draco
\* on, level 6, quantization 14/10/12, animations, morph targets and skins
\* kept); only the file path differs, and it is the output path.
C3_FixedSettings ==
    \A i \in Calls("export_scene.gltf") :
        LET kw == log[i].arg
        IN  /\ kw.filepath = output_file
            /\ kw.export_format = "GLB"
            /\ kw.export_draco_mesh_compression_enable = TRUE
            /\ kw.export_draco_mesh_compression_level = 6
            /\ kw.export_draco_position_quantization = 14
            /\ kw.export_draco_normal_quantization = 10
            /\ kw.export_draco_texcoord_quantization = 12
            /\ kw.export_animations = TRUE
            /\ kw.export_morph = TRUE
            /\ kw.export_skins = TRUE

C3_Witness ==
    /\ Calls("export_scene.gltf") # {}
    /\ output_file = "b"
    /\ fs[input_file].size = MaxSize

\* C4: a failing statement ends the run there: no later statement runs and
\* nothing changes afterwards.  A failed import means no exporter call and
\* no file written; a failed export means no "Compression complete!".
C4_StopsAtFailure ==
    /\ (exc # NoExc) <=> (pc = "aborted")
    /\ pc = "aborted" => /\ Len(log) > 0
                         /\ ~log[Len(log)].ok
                         /\ log[Len(log)].line = exc.line
    /\ \A i \in 1..(Len(log) - 1) : log[i].ok
    /\ Failed("import_scene.gltf") =>
          Calls("export_scene.gltf") = {} /\ fs = fs0
    /\ Failed("export_scene.gltf") => ~Printed("Compression complete!")

C4_NoStepAfterFailure ==
    [](C4_StopsAtFailure) /\ [][pc = "aborted" => UNCHANGED vars]_vars

C4_Witness == Failed("import_scene.gltf") /\ pc = "aborted"

\* C5: the input path is the argument right after the first "--" and the
\* output path the one after that; these are the paths given to the
\* importer, the exporter and the size lookups.
C5_PathsFromArgs ==
    /\ input_file # None => FirstDashes > 0 /\ input_file = argv[FirstDashes + 1]
    /\ output_file # None => FirstDashes > 0 /\ output_file = argv[FirstDashes + 2]
    /\ WellFormedArgs /\ pc \notin {"L6", "L7"} =>
          input_file # None /\ output_file # None
    /\ \A i \in Calls("import_scene.gltf") : log[i].arg = argv[FirstDashes + 1]
    /\ \A i \in Calls("export_scene.gltf") :
          log[i].arg.filepath = argv[FirstDashes + 2]
    /\ \A i \in Calls("os.path.getsize") :
          log[i].arg = argv[FirstDashes + (IF log[i].line = "L47" THEN 1 ELSE 2)]

C5_Witness ==
    /\ pc = "done"
    /\ FirstDashes = 2
    /\ input_file # output_file

\* the ratio line's number, in tenths of a percent, for sizes in bytes:
\* (1 - o/i) * 100 to one decimal, ties to even
ExpectedTenths(o, i) ==
    LET num == (i - o) * 1000
        lo == num \div i
        rem == num - lo * i
    IN  IF 2 * rem < i THEN lo
        ELSE IF 2 * rem > i THEN lo + 1
        ELSE IF lo % 2 = 0 THEN lo ELSE lo + 1

LastPrinted == stdout[Len(stdout)]

\* C6 (as stated): whenever the export succeeded, the run ends with the
\* ratio line printed, whatever the two sizes are, a zero input size included.
C6_SummaryForEverySize ==
    (Terminal /\ Returned("export_scene.gltf")) =>
        /\ pc = "done"
        /\ LastPrinted[1] = "Compression ratio"

\* C6 (amended): after a successful export, a non-zero input size gives the
\* ratio line with (1 - output/input) * 100 of the sizes found after the
\* export; a zero input size ends the run with ZeroDivisionError at line 51,
\* after the two size lines and without a ratio line.
C6_SummaryUnlessEmptyInput ==
    (Terminal /\ Returned("export_scene.gltf")) =>
        IF fs[input_file].size = 0
        THEN /\ exc = [type |-> "ZeroDivisionError", line |-> "L51"]
             /\ LastPrinted[1] = "Output size"
             /\ ~Printed("Compression ratio")
        ELSE /\ pc = "done"
             /\ LastPrinted = <<"Compression ratio",
                    ExpectedTenths(fs[output_file].size, fs[input_file].size)>>

C6_Witness ==
    /\ pc = "done"
    /\ fs[output_file].size < fs[input_file].size
    /\ LastPrinted = <<"Compression ratio", 500>>

\* C7: without "--", or with fewer than two arguments after the first
\* "--", the run fails at line 6 or 7: nothing is printed, no Blender
\* operator is called, the scene and the files are untouched.
C7_BadArgsFailEarly ==
    ~WellFormedArgs =>
        /\ pc \in {"L6", "L7", "aborted"}
        /\ pc = "aborted" =>
              /\ exc.line \in {"L6", "L7"}
              /\ exc.type = (IF FirstDashes = 0 THEN "ValueError" ELSE "IndexError")
        /\ stdout = <<>>
        /\ \A i \in 1..Len(log) : log[i].op \notin BlenderOps
        /\ scene = DefaultScene
        /\ selected = DefaultSelection
        /\ fs = fs0

C7_Witness ==
    /\ pc = "aborted"
    /\ exc = [type |-> "IndexError", line |-> "L7"]

\* C8: when the exporter is invoked the scene holds exactly the objects the
\* importer produced and none of the objects of the startup scene.
C8_SceneIsImportOnly ==
    (pc = "L29" \/ Calls("export_scene.gltf") # {}) =>
        /\ scene = imported
        /\ scene \cap DefaultScene = {}

C8_Witness ==
    /\ Calls("export_scene.gltf") # {}
    /\ imported # {}

\* C9: the importer and the exporter are each called at most once, and
\* every run ends: completed with the ratio line printed, or aborted at
\* the first failing statement.
C9_Bounded ==
    /\ Cardinality(Calls("import_scene.gltf")) <= 1
    /\ Cardinality(Calls("export_scene.gltf")) <= 1
    /\ pc = "done" => exc = NoExc /\ LastPrinted[1] = "Compression ratio"
    /\ pc = "aborted" => /\ exc # NoExc
                         /\ ~log[Len(log)].ok
                         /\ \A i \in 1..(Len(log) - 1) : log[i].ok

C9_OnceAndTerminates == [](C9_Bounded) /\ <>(Terminal)

C9_Witness ==
    /\ pc = "done"
    /\ Cardinality(Calls("import_scene.gltf")) = 1
    /\ Cardinality(Calls("export_scene.gltf")) = 1

\* C10: no file other than the one at the output path is ever created or
\* changed; with distinct paths the input file keeps its contents and size.
C10_OnlyOutputWritten ==
    /\ \A p \in Paths : p # output_file => fs[p] = fs0[p]
    /\ (input_file # None /\ input_file # output_file) =>
          fs[input_file] = fs0[input_file]

C10_Witness ==
    /\ Terminal
    /\ Returned("export_scene.gltf")
    /\ input_file # output_file
    /\ fs[output_file] # fs0[output_file]
    /\ fs0[output_file].exists

====
